---- MODULE Spec2Model ----
(***************************************************************************)
(* RecordMcpClient (examples/python-client.py): an HTTP client holding a   *)
(* base endpoint, a bearer credential and a requests.Session, and the      *)
(* demonstration script example_basic_usage that drives it.                *)
(*                                                                         *)
(* Python values are tagged records [t |-> tag, v |-> payload]; a dict is  *)
(* a function from its keys, a list a sequence.  The strings the code      *)
(* takes apart (URLs, the credential) are sequences of chunks in which     *)
(* every '/' is a chunk of its own; the others are atomic.  A response     *)
(* body is the sequence of JSON tokens the server wrote.                   *)
(***************************************************************************)
EXTENDS Integers, Sequences, FiniteSets, TLC

VARIABLES
    ctor,       \* the arguments RecordMcpClient(...) was constructed with
    self,       \* the client object: base_url, api_key, session
    pc,         \* where the caller is: "idle", "waiting" (blocked in session.get/post)
    call,       \* the public method in progress or last completed, with its arguments
    wire,       \* the requests the session sent during that call
    response,   \* what came back for the request on the wire
    outcome,    \* how the call ended: returned a value, or raised
    line,       \* example_basic_usage: the statement it is at
    printed     \* example_basic_usage: what it printed so far

vars == <<ctor, self, pc, call, wire, response, outcome, line, printed>>

(***************************************************************************)
(* Bounds                                                                  *)
(***************************************************************************)
MaxSlashes == 2     \* trailing '/' on a base_url given to the constructor
MaxFields == 2      \* length of the fields list given to add_review_type

(***************************************************************************)
(* Python values                                                           *)
(***************************************************************************)
None == [t |-> "null"]
PyBool(b) == [t |-> "bool", v |-> b]
PyNum(n) == [t |-> "num", v |-> n]
PyStr(s) == [t |-> "str", v |-> s]
PyList(q) == [t |-> "arr", v |-> q]
PyDict(f) == [t |-> "obj", v |-> f]

EmptyDict == PyDict(<<>>)

\* bool(x) as `or` and `if` apply it
Truthy(x) ==
    CASE x.t = "null" -> FALSE
      [] x.t = "bool" -> x.v
      [] x.t = "num" -> x.v # 0
      [] x.t = "str" -> x.v # ""
      [] x.t = "arr" -> Len(x.v) > 0
      [] x.t = "obj" -> DOMAIN x.v # {}

\* a or b
Or(a, b) == IF Truthy(a) THEN a ELSE b

\* d[k] = x on a dict literal under construction: a later key replaces an earlier one
DictSet(f, k, x) == [q \in (DOMAIN f) \cup {k} |-> IF q = k THEN x ELSE f[q]]

\* dict.update(new)
DictUpdate(old, new) ==
    [q \in (DOMAIN old) \cup (DOMAIN new) |-> IF q \in DOMAIN new THEN new[q] ELSE old[q]]

(***************************************************************************)
(* str.rstrip(chars) for a one-character chars                             *)
(***************************************************************************)
RECURSIVE rstrip(_, _)
\* variant: removes one trailing c only
RstripOnce(s, c) ==
    IF Len(s) > 0 /\ s[Len(s)] = c THEN SubSeq(s, 1, Len(s) - 1) ELSE s

rstrip(s, c) ==
    IF Len(s) > 0 /\ s[Len(s)] = c THEN rstrip(SubSeq(s, 1, Len(s) - 1), c) ELSE s

(***************************************************************************)
(* JSON text: tokens, the server's encoding, and json.loads                *)
(***************************************************************************)
Tok(k, s) == [k |-> k, s |-> s]

\* a number as JSON writes it, and as json.loads reads it back
NumText(n) == CASE n = 0 -> "0" [] n = 1 -> "1" [] n = 2 -> "2"
NumOf(s) == CASE s = "0" -> 0 [] s = "1" -> 1 [] s = "2" -> 2
IsP(tk, s) == tk.k = "p" /\ tk.s = s

RECURSIVE Joined(_)
\* the ways to write the texts of q one after the other, separated by commas
Joined(q) ==
    IF Len(q) = 0 THEN {<<>>}
    ELSE IF Len(q) = 1 THEN q[1]
    ELSE {a \o <<Tok("p", ",")>> \o b : a \in q[1], b \in Joined(Tail(q))}

RECURSIVE Orders(_)
\* every order in which the keys of S can be written
Orders(S) ==
    IF S = {} THEN {<<>>}
    ELSE UNION {{<<k>> \o o : o \in Orders(S \ {k})} : k \in S}

RECURSIVE Encodings(_)
\* the texts a JSON encoder may write for x (the order of an object's members is the encoder's)
Encodings(x) ==
    CASE x.t = "null" -> {<<Tok("lit", "null")>>}
      [] x.t = "bool" -> {<<Tok("lit", IF x.v THEN "true" ELSE "false")>>}
      [] x.t = "num" -> {<<Tok("num", NumText(x.v))>>}
      [] x.t = "str" -> {<<Tok("str", x.v)>>}
      [] x.t = "arr" ->
            {<<Tok("p", "[")>> \o b \o <<Tok("p", "]")>> :
                b \in Joined([i \in 1..Len(x.v) |-> Encodings(x.v[i])])}
      [] x.t = "obj" ->
            UNION {
                {<<Tok("p", "{")>> \o b \o <<Tok("p", "}")>> :
                    b \in Joined([i \in 1..Len(o) |->
                            {<<Tok("str", o[i]), Tok("p", ":")>> \o e : e \in Encodings(x.v[o[i]])}])}
                : o \in Orders(DOMAIN x.v)}

Parsed(x, n) == [ok |-> TRUE, val |-> x, next |-> n]
NotJson == [ok |-> FALSE]

RECURSIVE ParseValue(_, _), ParseElems(_, _, _), ParseMembers(_, _, _)
\* the JSON value starting at token i of tx
ParseValue(tx, i) ==
    IF i > Len(tx) THEN NotJson
    ELSE LET tk == tx[i] IN
         CASE tk.k = "lit" /\ tk.s = "null" -> Parsed(None, i + 1)
           [] tk.k = "lit" /\ tk.s = "true" -> Parsed(PyBool(TRUE), i + 1)
           [] tk.k = "lit" /\ tk.s = "false" -> Parsed(PyBool(FALSE), i + 1)
           [] tk.k = "num" -> Parsed(PyNum(NumOf(tk.s)), i + 1)
           [] tk.k = "str" -> Parsed(PyStr(tk.s), i + 1)
           [] IsP(tk, "[") ->
                IF i + 1 <= Len(tx) /\ IsP(tx[i + 1], "]")
                THEN Parsed(PyList(<<>>), i + 2)
                ELSE ParseElems(tx, i + 1, <<>>)
           [] IsP(tk, "{") ->
                IF i + 1 <= Len(tx) /\ IsP(tx[i + 1], "}")
                THEN Parsed(EmptyDict, i + 2)
                ELSE ParseMembers(tx, i + 1, <<>>)
           [] OTHER -> NotJson

\* the rest of a list whose elements so far are acc
ParseElems(tx, i, acc) ==
    LET e == ParseValue(tx, i) IN
    IF ~e.ok \/ e.next > Len(tx) THEN NotJson
    ELSE IF IsP(tx[e.next], ",") THEN ParseElems(tx, e.next + 1, Append(acc, e.val))
    ELSE IF IsP(tx[e.next], "]") THEN Parsed(PyList(Append(acc, e.val)), e.next + 1)
    ELSE NotJson

\* the rest of an object whose members so far are acc
ParseMembers(tx, i, acc) ==
    IF i + 1 > Len(tx) \/ tx[i].k # "str" \/ ~IsP(tx[i + 1], ":") THEN NotJson
    ELSE LET e == ParseValue(tx, i + 2) IN
         IF ~e.ok \/ e.next > Len(tx) THEN NotJson
         ELSE IF IsP(tx[e.next], ",")
              THEN ParseMembers(tx, e.next + 1, DictSet(acc, tx[i].s, e.val))
         ELSE IF IsP(tx[e.next], "}")
              THEN Parsed(PyDict(DictSet(acc, tx[i].s, e.val)), e.next + 1)
         ELSE NotJson

\* json.loads(tx): the whole text must be one value
loads(tx) ==
    LET e == ParseValue(tx, 1) IN
    IF e.ok /\ e.next = Len(tx) + 1 THEN e ELSE NotJson

(***************************************************************************)
(* The values the model draws its inputs from                              *)
(***************************************************************************)
RECURSIVE Slashes(_)
Slashes(n) == IF n = 0 THEN <<>> ELSE <<"/">> \o Slashes(n - 1)

Stems == {<<>>, <<"http:", "/", "/", "h", "/", "v1">>}
BaseUrls == {st \o Slashes(n) : st \in Stems, n \in 0..MaxSlashes}
ApiKeys == {<<"k1">>, <<"k2">>}

Endpoints == {<<"/", "mcp">>, <<"/", "x">>}
Methods == {"GET", "POST", "PUT", "get"}

RECURSIVE SeqsUpTo(_, _)
\* the sequences over S of length at most n
SeqsUpTo(S, n) ==
    IF n = 0 THEN {<<>>}
    ELSE LET shorter == SeqsUpTo(S, n - 1) IN
         shorter \cup {Append(q, x) : q \in shorter, x \in S}

\* JSON-compatible mappings: keys "a" and "b", each optional
ValuesA ==
    {PyNum(1), PyDict([k \in {"a"} |-> PyBool(TRUE)]), PyList(<<>>), PyList(<<PyStr("x"), PyBool(FALSE)>>)}
ValuesB == {None, PyNum(0)}
Mappings ==
    {EmptyDict}
        \cup {PyDict([k \in {"a"} |-> x]) : x \in ValuesA}
        \cup {PyDict([k \in {"b"} |-> y]) : y \in ValuesB}
        \cup {PyDict([k \in {"a", "b"} |-> IF k = "a" THEN x ELSE y]) : x \in ValuesA, y \in ValuesB}

\* response bodies that are JSON but no encoding of a mapping, or no JSON at all
OtherTexts ==
    { <<>>,
      <<Tok("lit", "<html>")>>,
      <<Tok("num", "1")>>,
      <<Tok("p", "["), Tok("p", "]")>>,
      <<Tok("p", "{")>>,
      <<Tok("p", "{"), Tok("str", "a"), Tok("p", ":"), Tok("num", "1")>>,
      <<Tok("p", "{"), Tok("str", "a"), Tok("p", ":"), Tok("num", "1"), Tok("p", ","), Tok("p", "}")>>,
      <<Tok("p", "{"), Tok("p", "}"), Tok("p", "}")>>,
      <<Tok("p", "{"), Tok("str", "a"), Tok("p", ":"), Tok("num", "1"), Tok("p", ","),
        Tok("str", "a"), Tok("p", ":"), Tok("lit", "null"), Tok("p", "}")>> }

Texts == OtherTexts \cup UNION {Encodings(m) : m \in Mappings}

StatusCodes == {200, 300, 404, 500}

\* the session call raised instead of yielding a response (DNS, connection refused, ...)
TransportError == [transport |-> "error", status_code |-> 0, text |-> <<>>]
Responses ==
    {TransportError}
        \cup {[transport |-> "ok", status_code |-> st, text |-> tx] : st \in StatusCodes, tx \in Texts}
NoResponse == [transport |-> "none", status_code |-> 0, text |-> <<>>]

(***************************************************************************)
(* How a call ends                                                         *)
(***************************************************************************)
Return(x) == [kind |-> "return", error |-> "", status |-> 0, value |-> x]
Raise(e, st) == [kind |-> "raise", error |-> e, status |-> st, value |-> None]
NoOutcome == [kind |-> "none", error |-> "", status |-> 0, value |-> None]

(***************************************************************************)
(* requests.Session                                                        *)
(***************************************************************************)
\* the headers a new requests.Session carries
DefaultHeaders ==
    [h \in {"User-Agent", "Accept"} |->
        IF h = "User-Agent" THEN <<"python-requests">> ELSE <<"*", "/", "*">>]

Session == [headers |-> DefaultHeaders]

\* session.get(url): the request it puts on the wire
SessionGet(session, url) ==
    [method |-> "GET", url |-> url, headers |-> session.headers, json |-> None]

\* variant: the POST bypasses the session's headers
PostWithoutSessionHeaders(session, url, json) ==
    [method |-> "POST", url |-> url, headers |-> DefaultHeaders, json |-> json]

\* session.post(url, json=body)
SessionPost(session, url, json) ==
    [method |-> "POST", url |-> url, headers |-> session.headers, json |-> json]

\* response.raise_for_status() raises: requests does for 400 <= status_code < 600
\* variant: raises for server errors only
RaisesOn5xx(resp) == resp.status_code >= 500 /\ resp.status_code < 600
raise_for_status(resp) == resp.status_code >= 400 /\ resp.status_code < 600

\* response.json()
\* variant: keeps one member of a decoded object
JsonFirstMemberOnly(resp) ==
    LET e == loads(resp.text) IN
    IF e.ok /\ e.val.t = "obj" /\ Cardinality(DOMAIN e.val.v) > 1
    THEN Parsed(PyDict([k \in {CHOOSE k \in DOMAIN e.val.v : TRUE} |-> e.val.v[k]]), e.next)
    ELSE e
json(resp) == loads(resp.text)

(***************************************************************************)
(* RecordMcpClient                                                         *)
(***************************************************************************)
\* variant: strips a single trailing separator
InitStripsOne(base_url, api_key) ==
    [base_url |-> RstripOnce(base_url, "/"),
     api_key |-> api_key,
     session |-> [headers |-> DictUpdate(Session.headers,
        [h \in {"Authorization", "Content-Type"} |->
            IF h = "Authorization" THEN <<"Bearer ">> \o api_key
            ELSE <<"application", "/", "json">>])]]

\* RecordMcpClient(base_url, api_key)
__init__(base_url, api_key) ==
    [base_url |-> rstrip(base_url, "/"),
     api_key |-> api_key,
     session |-> [headers |-> DictUpdate(Session.headers,
        [h \in {"Authorization", "Content-Type"} |->
            IF h = "Authorization" THEN <<"Bearer ">> \o api_key
            ELSE <<"application", "/", "json">>])]]

\* what a method has done when it blocks in the session, or raised before it got there
Sent(req) == [wire |-> <<req>>, raised |-> NoOutcome]
Failed(o) == [wire |-> <<>>, raised |-> o]

\* variant: every method but POST is sent as a GET
RequestDefaultsToGet(slf, endpoint, method, body) ==
    IF method = "POST" THEN Sent(SessionPost(slf.session, slf.base_url \o endpoint, body))
    ELSE Sent(SessionGet(slf.session, slf.base_url \o endpoint))
\* variant: the body is passed to the session on GET too
RequestSendsBodyOnGet(slf, endpoint, method, body) ==
    IF method \in {"GET", "POST"}
    THEN Sent([SessionPost(slf.session, slf.base_url \o endpoint, body) EXCEPT !.method = method])
    ELSE Failed(Raise("ValueError", 0))

\* _request up to and including its session call
_request(slf, endpoint, method, body) ==
    LET url == slf.base_url \o endpoint IN
    IF method = "GET" THEN Sent(SessionGet(slf.session, url))
    ELSE IF method = "POST" THEN Sent(SessionPost(slf.session, url, body))
    ELSE Failed(Raise("ValueError", 0))

\* variant: a body that is not JSON is swallowed and {} returned
ReturnsEmptyOnBadJson(resp) ==
    IF resp.transport = "error" THEN Raise("ConnectionError", 0)
    ELSE IF raise_for_status(resp) THEN Raise("HTTPError", resp.status_code)
    ELSE LET e == json(resp) IN
         IF e.ok THEN Return(e.val) ELSE Return(EmptyDict)

\* _request from the moment its session call ends
_request_returns(resp) ==
    IF resp.transport = "error" THEN Raise("ConnectionError", 0)
    ELSE IF raise_for_status(resp) THEN Raise("HTTPError", resp.status_code)
    ELSE LET e == json(resp) IN
         IF e.ok THEN Return(e.val) ELSE Raise("JSONDecodeError", 0)

\* variant: args is passed on without the `or {}` default
CallToolPassesArgsAsGiven(slf, tool_name, args) ==
    _request(slf, <<"/", "mcp">>, "POST",
        PyDict([k \in {"tool", "arguments"} |-> IF k = "tool" THEN PyStr(tool_name) ELSE args]))

call_tool(slf, tool_name, args) ==
    _request(slf, <<"/", "mcp">>, "POST",
        PyDict([k \in {"tool", "arguments"} |->
            IF k = "tool" THEN PyStr(tool_name) ELSE Or(args, EmptyDict)]))

list_tools(slf) == _request(slf, <<"/", "tools">>, "GET", None)

health(slf) == _request(slf, <<"/", "health">>, "GET", None)

list_review_types(slf) == call_tool(slf, "list_review_types", None)

get_review_type(slf, type_name) ==
    call_tool(slf, "get_review_type", PyDict([k \in {"typeName"} |-> type_name]))

add_review_type(slf, name, fields) ==
    call_tool(slf, "add_review_type",
        PyDict([k \in {"name", "fields"} |-> IF k = "name" THEN name ELSE fields]))

\* variant: fieldName and fieldType take each other's parameter
AddFieldSwapsNameAndType(slf, type_name, field_name, field_type) ==
    call_tool(slf, "add_field_to_type",
        PyDict([k \in {"typeName", "fieldName", "fieldType"} |->
            IF k = "typeName" THEN type_name
            ELSE IF k = "fieldName" THEN field_type ELSE field_name]))

add_field_to_type(slf, type_name, field_name, field_type) ==
    call_tool(slf, "add_field_to_type",
        PyDict([k \in {"typeName", "fieldName", "fieldType"} |->
            IF k = "typeName" THEN type_name
            ELSE IF k = "fieldName" THEN field_name ELSE field_type]))

add_review_record(slf, type_name, data) ==
    call_tool(slf, "add_review_record",
        PyDict([k \in {"typeName", "data"} |-> IF k = "typeName" THEN type_name ELSE data]))

(***************************************************************************)
(* Arguments the callers pass                                              *)
(***************************************************************************)
Bodies == {None, PyDict([k \in {"a"} |-> PyNum(1)])}
ToolNames == {"get_review_type", "no_such_tool"}
ToolArgs == {None, EmptyDict} \cup {PyDict([k \in {"a"} |-> x]) : x \in {PyNum(1), PyList(<<PyStr("x")>>)}}
TypeNames == {PyStr("coffee"), PyStr("")}
FieldDef(n, ty) == PyDict([k \in {"name", "type"} |-> IF k = "name" THEN PyStr(n) ELSE PyStr(ty)])
FieldLists == {PyList(q) : q \in SeqsUpTo({FieldDef("flavor", "string"), FieldDef("rating", "number")}, MaxFields)}
FieldNames == {PyStr("aroma")}
FieldTypes == {PyStr("string"), PyStr("date")}
Datas == {EmptyDict, PyDict([k \in {"flavor"} |-> PyStr("nutty")])}

Called(op, args) == [op |-> op, args |-> args]
NoCall == Called("none", <<>>)

(***************************************************************************)
(* A caller invoking the client                                            *)
(***************************************************************************)
\* the method runs until it blocks in the session or raises
Begin(c, r) ==
    /\ pc = "idle"
    /\ call' = c
    /\ wire' = r.wire
    /\ response' = NoResponse
    /\ IF r.wire = <<>>
       THEN pc' = "idle" /\ outcome' = r.raised
       ELSE pc' = "waiting" /\ outcome' = NoOutcome
    /\ UNCHANGED <<ctor, self, line, printed>>

Call_request ==
    /\ line = "off"
    /\ \E endpoint \in Endpoints, method \in Methods, body \in Bodies :
            Begin(Called("_request", <<endpoint, method, body>>),
                  _request(self, endpoint, method, body))

Call_call_tool ==
    /\ line = "off"
    /\ \E tool_name \in ToolNames, args \in ToolArgs :
            Begin(Called("call_tool", <<tool_name, args>>), call_tool(self, tool_name, args))

Call_list_tools ==
    /\ line = "off"
    /\ Begin(Called("list_tools", <<>>), list_tools(self))

Call_health ==
    /\ line = "off"
    /\ Begin(Called("health", <<>>), health(self))

Call_list_review_types ==
    /\ line = "off"
    /\ Begin(Called("list_review_types", <<>>), list_review_types(self))

Call_get_review_type ==
    /\ line = "off"
    /\ \E type_name \in TypeNames :
            Begin(Called("get_review_type", <<type_name>>), get_review_type(self, type_name))

Call_add_review_type ==
    /\ line = "off"
    /\ \E name \in TypeNames, fields \in FieldLists :
            Begin(Called("add_review_type", <<name, fields>>), add_review_type(self, name, fields))

Call_add_field_to_type ==
    /\ line = "off"
    /\ \E type_name \in TypeNames, field_name \in FieldNames, field_type \in FieldTypes :
            Begin(Called("add_field_to_type", <<type_name, field_name, field_type>>),
                  add_field_to_type(self, type_name, field_name, field_type))

Call_add_review_record ==
    /\ line = "off"
    /\ \E type_name \in TypeNames, data \in Datas :
            Begin(Called("add_review_record", <<type_name, data>>),
                  add_review_record(self, type_name, data))

\* the session call ends, and the method with it: nothing between the session
\* and the caller catches, so the caller gets what _request returns or raises
Receive ==
    /\ line = "off"
    /\ pc = "waiting"
    /\ \E resp \in Responses :
            /\ response' = resp
            /\ outcome' = _request_returns(resp)
    /\ pc' = "idle"
    /\ UNCHANGED <<ctor, self, call, wire, line, printed>>

Init ==
    /\ ctor \in [base_url : BaseUrls, api_key : ApiKeys]
    /\ self = __init__(ctor.base_url, ctor.api_key)
    /\ pc = "idle"
    /\ call = NoCall
    /\ wire = <<>>
    /\ response = NoResponse
    /\ outcome = NoOutcome
    /\ line = "off"
    /\ printed = <<>>

Next ==
    \/ Call_request
    \/ Call_call_tool
    \/ Call_list_tools
    \/ Call_health
    \/ Call_list_review_types
    \/ Call_get_review_type
    \/ Call_add_review_type
    \/ Call_add_field_to_type
    \/ Call_add_review_record
    \/ Receive

Spec == Init /\ [][Next]_vars

(***************************************************************************)
(* example_basic_usage, run by __main__                                    *)
(***************************************************************************)
PyFloat(units, tenths) == [t |-> "float", v |-> <<units, tenths>>]

ExampleBaseUrl == <<"https:", "/", "/", "your-worker.workers.dev">>
ExampleApiKey == <<"your-api-key-here">>
CoffeeFields ==
    PyList(<<FieldDef("flavor", "string"), FieldDef("aroma", "string"),
             FieldDef("rating", "number"), FieldDef("date_tasted", "date")>>)
CoffeeReview ==
    PyDict([k \in {"flavor", "aroma", "rating", "date_tasted"} |->
        CASE k = "flavor" -> PyStr("nutty with chocolate notes")
          [] k = "aroma" -> PyStr("strong and earthy")
          [] k = "rating" -> PyFloat(8, 5)
          [] k = "date_tasted" -> PyStr("2025-11-16T10:00:00Z")])

\* the client calls of the script in program order, each with the label it prints
Statements ==
    << [stmt |-> "health", label |-> "Health:"],
       [stmt |-> "add_review_type", label |-> "Created type:"],
       [stmt |-> "add_review_record", label |-> "Added review:"],
       [stmt |-> "list_review_types", label |-> "All types:"] >>

Position(l) == CHOOSE i \in 1..Len(Statements) : Statements[i].stmt = l
Following(l) ==
    IF Position(l) = Len(Statements) THEN "end" ELSE Statements[Position(l) + 1].stmt

\* variant: the script goes on after a failed call
AdvanceAlways(l, o) == Following(l)

\* where the script goes when the call at statement l ended with o: no try
\* statement encloses the calls, so a raise leaves example_basic_usage and __main__
Advance(l, o) == IF o.kind = "return" THEN Following(l) ELSE "aborted"

Example_health ==
    /\ line = "health"
    /\ Begin(Called("health", <<>>), health(self))

Example_add_review_type ==
    /\ line = "add_review_type"
    /\ Begin(Called("add_review_type", <<PyStr("coffee"), CoffeeFields>>),
             add_review_type(self, PyStr("coffee"), CoffeeFields))

Example_add_review_record ==
    /\ line = "add_review_record"
    /\ Begin(Called("add_review_record", <<PyStr("coffee"), CoffeeReview>>),
             add_review_record(self, PyStr("coffee"), CoffeeReview))

Example_list_review_types ==
    /\ line = "list_review_types"
    /\ Begin(Called("list_review_types", <<>>), list_review_types(self))

\* the call returns and its result is printed, or it raises and the script ends
Example_resume ==
    /\ line \in {Statements[i].stmt : i \in 1..Len(Statements)}
    /\ pc = "waiting"
    /\ \E resp \in Responses :
            LET o == _request_returns(resp) IN
            /\ response' = resp
            /\ outcome' = o
            /\ line' = Advance(line, o)
            /\ printed' = IF o.kind = "return"
                          THEN Append(printed, <<Statements[Position(line)].label, o.value>>)
                          ELSE printed
    /\ pc' = "idle"
    /\ UNCHANGED <<ctor, self, call, wire>>

ExampleInit ==
    /\ ctor = [base_url |-> ExampleBaseUrl, api_key |-> ExampleApiKey]
    /\ self = __init__(ctor.base_url, ctor.api_key)
    /\ pc = "idle"
    /\ call = NoCall
    /\ wire = <<>>
    /\ response = NoResponse
    /\ outcome = NoOutcome
    /\ line = "health"
    /\ printed = <<>>

ExampleNext ==
    \/ Example_health
    \/ Example_add_review_type
    \/ Example_add_review_record
    \/ Example_list_review_types
    \/ Example_resume

SpecExample == ExampleInit /\ [][ExampleNext]_vars

(***************************************************************************)
(* Properties                                                              *)
(***************************************************************************)
Completed == pc = "idle" /\ call.op # "none"
Answered == Completed /\ response.transport = "ok"
Success(st) == st >= 200 /\ st < 300
ErrorStatus(st) == st >= 400 /\ st < 600
ToolRoute == <<"/", "mcp">>
ToolBody(tool, arguments) ==
    PyDict([k \in {"tool", "arguments"} |-> IF k = "tool" THEN PyStr(tool) ELSE arguments])
OnePost(route, body) ==
    /\ Len(wire) = 1
    /\ wire[1].method = "POST"
    /\ wire[1].url = self.base_url \o route
    /\ wire[1].json = body
OneGet(route) ==
    /\ Len(wire) = 1
    /\ wire[1].method = "GET"
    /\ wire[1].url = self.base_url \o route
    /\ wire[1].json = None
IsMappingText(tx) == \E m \in Mappings : tx \in Encodings(m)

\* C1: call_tool(tool_name, args) puts exactly one request on the wire, a POST to
\* base_url + '/mcp' with body {tool: tool_name, arguments: args}, and with
\* arguments {} when args is omitted.
C1_CallToolPostsOnce ==
    call.op = "call_tool" =>
        OnePost(ToolRoute,
                ToolBody(call.args[1], IF call.args[2] = None THEN EmptyDict ELSE call.args[2]))

C1_Witness ==
    /\ Completed
    /\ call.op = "call_tool"
    /\ call.args[2] = None
    /\ outcome.kind = "return"

\* C2: _request with a method other than 'GET' and 'POST' raises the unsupported
\* method error and the session has sent nothing, whatever the route and body.
C2_UnsupportedMethodSendsNothing ==
    (call.op = "_request" /\ call.args[2] \notin {"GET", "POST"}) =>
        /\ pc = "idle"
        /\ wire = <<>>
        /\ response = NoResponse
        /\ outcome = Raise("ValueError", 0)

C2_Witness ==
    /\ call.op = "_request"
    /\ call.args[2] = "get"
    /\ call.args[3] # None
    /\ outcome.error = "ValueError"

\* C3 as stated: a response with any status that is not a success status (2xx)
\* makes the call raise the remote error carrying that status.
C3_NonSuccessRaises ==
    (Answered /\ ~Success(response.status_code)) =>
        outcome = Raise("HTTPError", response.status_code)

\* C3 amended: a response with a status from 400 to 599 makes the call raise the
\* remote error carrying that status and return no decoded body, whatever the
\* response body is.
C3_ErrorStatusRaises ==
    (Answered /\ ErrorStatus(response.status_code)) =>
        outcome = Raise("HTTPError", response.status_code)

C3_Witness ==
    /\ Answered
    /\ call.op = "get_review_type"
    /\ response.status_code = 404
    /\ IsMappingText(response.text)
    /\ outcome = Raise("HTTPError", 404)

\* C4: when the server answers with a success status and a body that is the
\* encoding of a mapping m, the call returns a mapping equal to m.
C4_ReturnsDecodedBody ==
    \A m \in Mappings :
        (Answered /\ Success(response.status_code) /\ response.text \in Encodings(m)) =>
            outcome = Return(m)

C4_Witness ==
    /\ Answered
    /\ response.status_code = 200
    /\ \E m \in Mappings :
            /\ DOMAIN m.v = {"a", "b"}
            /\ m.v["a"] = PyList(<<PyStr("x"), PyBool(FALSE)>>)
            /\ response.text \in Encodings(m)
            /\ response.text[2].s = "b"
            /\ outcome = Return(m)

\* C5: the stored endpoint is the given endpoint without its trailing separators,
\* the session carries 'Authorization: Bearer <credential>' and 'Content-Type:
\* application/json', and the URL of a request for a route that begins with a
\* separator has no doubled separator where endpoint and route meet.
C5_ConstructionNormalises ==
    LET n == Len(self.base_url) IN
    /\ n <= Len(ctor.base_url)
    /\ self.base_url = SubSeq(ctor.base_url, 1, n)
    /\ \A i \in (n + 1)..Len(ctor.base_url) : ctor.base_url[i] = "/"
    /\ (n > 0 => self.base_url[n] # "/")
    /\ self.session.headers["Authorization"] = <<"Bearer ">> \o ctor.api_key
    /\ self.session.headers["Content-Type"] = <<"application", "/", "json">>
    /\ \A i \in 1..Len(wire) :
            /\ SubSeq(wire[i].url, 1, n) = self.base_url
            /\ wire[i].url[n + 1] = "/"
            /\ (n > 0 => wire[i].url[n] # "/")

C5_Witness ==
    /\ Len(ctor.base_url) = Len(self.base_url) + MaxSlashes
    /\ Len(self.base_url) > 0
    /\ Len(wire) = 1
    /\ Completed

C7_ConvenienceShapesArguments ==
    /\ call.op = "list_review_types" =>
            OnePost(ToolRoute, ToolBody("list_review_types", EmptyDict))
    /\ call.op = "get_review_type" =>
            OnePost(ToolRoute, ToolBody("get_review_type",
                PyDict([k \in {"typeName"} |-> call.args[1]])))
    /\ call.op = "add_review_type" =>
            OnePost(ToolRoute, ToolBody("add_review_type",
                PyDict([k \in {"name", "fields"} |-> IF k = "name" THEN call.args[1] ELSE call.args[2]])))
    /\ call.op = "add_field_to_type" =>
            OnePost(ToolRoute, ToolBody("add_field_to_type",
                PyDict([k \in {"typeName", "fieldName", "fieldType"} |->
                    CASE k = "typeName" -> call.args[1]
                      [] k = "fieldName" -> call.args[2]
                      [] k = "fieldType" -> call.args[3]])))
    /\ call.op = "add_review_record" =>
            OnePost(ToolRoute, ToolBody("add_review_record",
                PyDict([k \in {"typeName", "data"} |-> IF k = "typeName" THEN call.args[1] ELSE call.args[2]])))
    /\ (call.op \in {"list_review_types", "get_review_type", "add_review_type",
                     "add_field_to_type", "add_review_record"} /\ outcome.kind = "return") =>
            /\ response.transport = "ok"
            /\ loads(response.text) = Parsed(outcome.value, Len(response.text) + 1)

C7_Witness ==
    /\ Completed
    /\ call.op = "add_review_type"
    /\ call.args[2] = PyList(<<FieldDef("flavor", "string"), FieldDef("rating", "number")>>)
    /\ wire[1].json.v["arguments"].v["fields"].v[2] = FieldDef("rating", "number")
    /\ outcome.kind = "return"

\* C8: health() sends exactly one request, a GET to base_url + '/health' without
\* a body, list_tools() one GET to base_url + '/tools' without a body, each
\* returns the decoded response, and a GET sent by _request has no body even
\* when a body was passed.
C8_ReadsAreBodilessGets ==
    /\ call.op = "health" => OneGet(<<"/", "health">>)
    /\ call.op = "list_tools" => OneGet(<<"/", "tools">>)
    /\ (call.op \in {"health", "list_tools"} /\ outcome.kind = "return") =>
            /\ response.transport = "ok"
            /\ loads(response.text) = Parsed(outcome.value, Len(response.text) + 1)
    /\ \A i \in 1..Len(wire) : wire[i].json # None => wire[i].method = "POST"
    /\ (call.op = "_request" /\ call.args[2] = "GET") => OneGet(call.args[1])

C8_Witness ==
    /\ Completed
    /\ call.op = "_request"
    /\ call.args[2] = "GET"
    /\ call.args[3] # None
    /\ wire[1].json = None
    /\ outcome.kind = "return"

\* C9 as stated: a call sends at most one request, and when its one request
\* ends in a transport error, a status that is not a success status or a body
\* that is not JSON, the call raises without a second request.
C9_SingleAttemptNonSuccess ==
    /\ Len(wire) <= 1
    /\ (Completed /\ response.transport # "none"
            /\ (\/ response.transport = "error"
                \/ ~Success(response.status_code)
                \/ ~loads(response.text).ok)) =>
            (outcome.kind = "raise" /\ Len(wire) = 1)

\* C9 amended: a call sends at most one request, and when its one request ends
\* in a transport error, a status from 400 to 599 or a body that is not JSON,
\* the call raises without a second request.
C9_SingleAttempt ==
    /\ Len(wire) <= 1
    /\ (Completed /\ response.transport # "none"
            /\ (\/ response.transport = "error"
                \/ ErrorStatus(response.status_code)
                \/ ~loads(response.text).ok)) =>
            (outcome.kind = "raise" /\ Len(wire) = 1)

C9_Witness ==
    /\ Completed
    /\ call.op = "list_tools"
    /\ response.status_code = 200
    /\ ~loads(response.text).ok
    /\ outcome = Raise("JSONDecodeError", 0)
    /\ Len(wire) = 1

Rank(op) ==
    IF \E i \in 1..Len(Statements) : Statements[i].stmt = op THEN Position(op) ELSE 0
Labels(n) == [i \in 1..n |-> Statements[i].label]

\* C10: the script issues health, add_review_type, add_review_record and
\* list_review_types in that order, each at most once and each only after the
\* one before it returned and was printed; when a call raises, the script is
\* over: it issues no further call and prints nothing more.
C10_ScriptAbortsOnFailure ==
    /\ [][(pc = "idle" /\ pc' = "waiting") =>
            /\ Rank(call'.op) = Rank(call.op) + 1
            /\ (call.op # "none" => outcome.kind = "return")
            /\ [i \in 1..Len(printed) |-> printed[i][1]] = Labels(Rank(call.op))]_vars
    /\ [][(pc = "waiting" /\ pc' = "idle" /\ outcome'.kind = "raise") =>
            (line' = "aborted" /\ printed' = printed)]_vars
    /\ [][line = "aborted" => UNCHANGED vars]_vars

C10_Witness ==
    /\ line = "aborted"
    /\ call.op = "add_review_record"
    /\ outcome.kind = "raise"
    /\ [i \in 1..Len(printed) |-> printed[i][1]] = Labels(2)

====
